---- MODULE Spec2Model ----
(***************************************************************************)
(* Model of vhr_parser/file_parser.py (class FileParser): the four layer   *)
(* decoders, extract_frames, process_file and process_directory.           *)
(*                                                                         *)
(* Three state machines share the module:                                  *)
(*   DecSpec   one layer decoder (a generator) driven to its end,          *)
(*   FileSpec  one call of process_file, statement group by statement      *)
(*             group,                                                      *)
(*   DirSpec   process_directory: the process pool and the coordinator.    *)
(* Bytes are naturals 0..255, a byte span is a sequence of bytes, and a    *)
(* Python value handed to a decoder is a record with its kind.             *)
(***************************************************************************)
EXTENDS Integers, Sequences, FiniteSets, TLC

VARIABLES dlayer, dshape, dbuf, doffset, dout, dpc,
          file, fpc, mapped, released, frames, exhausted, rows, writerInvoked,
          ferr,
          files, max_workers, fstate, outcome, yielded, pbar, okPrinted,
          failPrinted, cpc

decVars  == <<dlayer, dshape, dbuf, doffset, dout, dpc>>
fileVars == <<file, fpc, mapped, released, frames, exhausted, rows,
              writerInvoked, ferr>>
dirVars  == <<files, max_workers, fstate, outcome, yielded, pbar, okPrinted,
              failPrinted, cpc>>
vars     == <<decVars, fileVars, dirVars>>

(***************************************************************************)
(* Bounds of the model.                                                    *)
(***************************************************************************)
MaxRecs    == 2   \* complete records in a decoder input
MaxFiles   == 3   \* files discovered by process_directory
MaxWorkers == 2   \* largest max_workers tried

(***************************************************************************)
(* Python values and byte helpers.                                         *)
(***************************************************************************)
Min(a, b) == IF a <= b THEN a ELSE b

\* memoryview(...) over a byte span
Mv(d) == [kind |-> "memoryview", data |-> d, items |-> <<>>]

\* a Python tuple, as yielded by the generators
Tup(xs) == [kind |-> "tuple", data |-> <<>>, items |-> xs]

\* len(x)
PyLen(obj) == IF obj.kind = "tuple" THEN Len(obj.items) ELSE Len(obj.data)

\* s[a:b] for 0 <= a <= b: the slice is clamped to the sequence, never raises
PySlice(s, a, b) == SubSeq(s, a + 1, Min(b, Len(s)))

\* obj[a:b], keeping the kind of obj
ObjSlice(obj, a, b) ==
  IF obj.kind = "tuple" THEN Tup(PySlice(obj.items, a, b))
  ELSE Mv(PySlice(obj.data, a, b))

\* only str has .encode; memoryview, bytes and tuple do not
HasEncode(kind) == kind = "str"

\* struct.unpack needs a bytes-like object
BytesLike(kind) == kind = "memoryview"

\* struct.unpack(">H" / ">I", bs): big-endian unsigned integer
RECURSIVE UnpackLE(_)
UnpackLE(bs) ==
  IF Len(bs) = 0 THEN 0
  ELSE bs[1] + 256 * UnpackLE(SubSeq(bs, 2, Len(bs)))

RECURSIVE Unpack(_)
Unpack(bs) ==
  IF Len(bs) = 0 THEN 0
  ELSE 256 * Unpack(SubSeq(bs, 1, Len(bs) - 1)) + bs[Len(bs)]

\* struct.pack(">H" / ">I", n): w bytes, most significant first
RECURSIVE Pack(_, _)
Pack(n, w) ==
  IF w = 0 THEN <<>> ELSE Append(Pack(n \div 256, w - 1), n % 256)

\* little-endian fields of the gzip container
RECURSIVE PackLE(_, _)
PackLE(n, w) ==
  IF w = 0 THEN <<>> ELSE <<n % 256>> \o PackLE(n \div 256, w - 1)

(***************************************************************************)
(* gzip, restricted to members holding one final stored block (what        *)
(* gzip.compress(data, 0) writes for short data).  The CRC-32 of the       *)
(* trailer is abstracted to the sum of the bytes.                          *)
(***************************************************************************)
RECURSIVE SumBytes(_)
SumBytes(d) ==
  IF Len(d) = 0 THEN 0
  ELSE IF Len(d) = 1 THEN d[1]
  ELSE LET h == Len(d) \div 2
       IN SumBytes(SubSeq(d, 1, h)) + SumBytes(SubSeq(d, h + 1, Len(d)))

Checksum(d) == SumBytes(d)

GzHeader == <<31, 139, 8, 0, 0, 0, 0, 0, 0, 255>>

GzipCompress(d) ==
  GzHeader \o <<1>> \o PackLE(Len(d), 2) \o PackLE(65535 - Len(d), 2) \o d
    \o PackLE(Checksum(d), 4) \o PackLE(Len(d), 4)

RECURSIVE SkipZeros(_)
SkipZeros(c) ==
  IF Len(c) > 0 /\ c[1] = 0 THEN SkipZeros(Tail(c)) ELSE c

\* gzip.decompress(c): the concatenation of the members of c, or an error
RECURSIVE GzipMembers(_, _)
GzipMembers(c, acc) ==
  IF Len(c) = 0 THEN [raised |-> FALSE, err |-> "", data |-> acc]
  ELSE IF Len(c) < 2 THEN [raised |-> TRUE, err |-> "EOFError", data |-> <<>>]
  ELSE IF SubSeq(c, 1, 2) # <<31, 139>>
    THEN [raised |-> TRUE, err |-> "BadGzipFile", data |-> <<>>]
  ELSE IF Len(c) < 10 THEN [raised |-> TRUE, err |-> "EOFError", data |-> <<>>]
  ELSE IF c[3] # 8 THEN [raised |-> TRUE, err |-> "BadGzipFile", data |-> <<>>]
  ELSE IF Len(c) < 15 THEN [raised |-> TRUE, err |-> "EOFError", data |-> <<>>]
  ELSE
    LET n    == UnpackLE(SubSeq(c, 12, 13))
        nn   == UnpackLE(SubSeq(c, 14, 15))
        body == SubSeq(c, 16, 15 + n)
        trl  == SubSeq(c, 16 + n, 23 + n)
    IN IF c[11] # 1 \/ n + nn # 65535
         THEN [raised |-> TRUE, err |-> "zlib.error", data |-> <<>>]
       ELSE IF Len(c) < 23 + n
         THEN [raised |-> TRUE, err |-> "EOFError", data |-> <<>>]
       ELSE IF UnpackLE(SubSeq(trl, 1, 4)) # Checksum(body)
               \/ UnpackLE(SubSeq(trl, 5, 8)) # n
         THEN [raised |-> TRUE, err |-> "BadGzipFile", data |-> <<>>]
       ELSE GzipMembers(SkipZeros(SubSeq(c, 24 + n, Len(c))), acc \o body)

GzipDecompress(c) == GzipMembers(c, <<>>)

(***************************************************************************)
(* The layer decoders: parse_layer1 .. parse_layer4.                       *)
(***************************************************************************)
\* the literal header size of each decoder's loop
HeaderSize(l) == CASE l = 1 -> 35 [] l = 2 -> 16 [] l = 3 -> 8 [] l = 4 -> 4

\* first byte of the length field inside the header
LenOff(l) == CASE l = 1 -> 31 [] l = 2 -> 14 [] l = 3 -> 4 [] l = 4 -> 2

\* while offset + H <= len(span)
LoopCond(l, obj, offset) == offset + HeaderSize(l) <= PyLen(obj)

\* (data_len,) = struct.unpack(">I" / ">H", header[lo:H])
DataLen(l, header) == Unpack(PySlice(header, LenOff(l), HeaderSize(l)))

\* offset += H + data_len
AdvanceNoHeader(l, offset, data_len) == offset + data_len

Advance(l, offset, data_len) == offset + HeaderSize(l) + data_len

Raise(e, offset) ==
  [brk |-> FALSE, raised |-> TRUE, err |-> e, item |-> Tup(<<>>),
   header |-> <<>>, span |-> <<>>, next |-> offset]

Break(offset) == [Raise("", offset) EXCEPT !.brk = TRUE, !.raised = FALSE]

Yield(l, offset, item, header, span, data_len) ==
  [brk |-> FALSE, raised |-> FALSE, err |-> "", item |-> item,
   header |-> header, span |-> span, next |-> Advance(l, offset, data_len)]

\* decompressed_data = memoryview(gzip.decompress(comp_data.tobytes()))
\* yield vid, decompressed_data
Layer1Yield(offset, header, comp_data, data_len, gz) ==
  IF gz.raised THEN Raise(gz.err, offset)
  ELSE Yield(1, offset, Tup(<<PySlice(header, 0, 18), Mv(gz.data)>>), header,
             comp_data, data_len)

\* the payload slice, then the yield
WithSpan(l, offset, header, data_len, span) ==
  IF l = 1 THEN Layer1Yield(offset, header, span, data_len, GzipDecompress(span))
  ELSE Yield(l, offset, Tup(<<Mv(header), Mv(span)>>), header, span, data_len)

WithLen(l, obj, offset, header, data_len) ==
  WithSpan(l, offset, header, data_len,
           PySlice(obj.data, offset + HeaderSize(l),
                   offset + HeaderSize(l) + data_len))

\* if len(header) < H: break; (layer 1) vid = header[:18].encode("ascii");
\* (data_len,) = struct.unpack(...)
WithHeader(l, obj, offset, hdr) ==
  IF PyLen(hdr) < HeaderSize(l) THEN Break(offset)
  ELSE IF l = 1 /\ ~HasEncode(hdr.kind) THEN Raise("AttributeError", offset)
  ELSE IF ~BytesLike(hdr.kind) THEN Raise("TypeError", offset)
  ELSE WithLen(l, obj, offset, hdr.data, DataLen(l, hdr.data))

\* One iteration of the while loop of parse_layer<l>, entered at `offset`:
\* it breaks, raises, or yields `item` and moves the offset to `next`.
\* `span` is the raw payload slice (for layer 1 the compressed span).
ParseStep(l, obj, offset) ==
  WithHeader(l, obj, offset, ObjSlice(obj, offset, offset + HeaderSize(l)))

NoRecs == [recs |-> <<>>, raised |-> FALSE, err |-> ""]

Prepend(item, r) == [r EXCEPT !.recs = <<item>> \o r.recs]

\* The whole generator from `offset`: the items it yields, and whether it
\* ends by raising.
RECURSIVE ParseFrom(_, _, _)
AfterStep(l, obj, s) ==
  IF s.brk THEN NoRecs
  ELSE IF s.raised THEN [recs |-> <<>>, raised |-> TRUE, err |-> s.err]
  ELSE Prepend(s.item, ParseFrom(l, obj, s.next))

ParseFrom(l, obj, offset) ==
  IF ~LoopCond(l, obj, offset) THEN NoRecs
  ELSE AfterStep(l, obj, ParseStep(l, obj, offset))

parse_layer1(mm_view) == ParseFrom(1, mm_view, 0)

parse_layer2(decompressed_data) == ParseFrom(2, decompressed_data, 0)

parse_layer3(frame_seqs) == ParseFrom(3, frame_seqs, 0)

parse_layer4(frame_seq) == ParseFrom(4, frame_seq, 0)

(***************************************************************************)
(* extract_frames: the nested for loops over the generators.  A result is  *)
(* the pairs yielded, and whether the generator then raised.               *)
(***************************************************************************)
NoFrames == [frames |-> <<>>, raised |-> FALSE, err |-> ""]

\* run a, then b unless a raised
Cat(a, b) ==
  IF a.raised THEN a
  ELSE [frames |-> a.frames \o b.frames, raised |-> b.raised, err |-> b.err]

RECURSIVE CatAll(_)
CatAll(rs) == IF Len(rs) = 0 THEN NoFrames ELSE Cat(rs[1], CatAll(Tail(rs)))

\* what a generator result contributes once its items are consumed
Ending(r) == [frames |-> <<>>, raised |-> r.raised, err |-> r.err]

\* the items of generator result r, each mapped to the frames it gives
PairAll(vid, r) ==
  [frames |-> [i \in 1..Len(r.recs) |-> <<vid, r.recs[i]>>],
   raised |-> r.raised, err |-> r.err]

ForFrame(vid, frame_seq) == PairAll(vid, parse_layer3(frame_seq))

Then(inner, r) == Cat(CatAll(inner), Ending(r))

InFrameSeqs(vid, r) == Then([i \in 1..Len(r.recs) |-> ForFrame(vid, r.recs[i])], r)

ForFrameSeq(vid, frame_seqs) == InFrameSeqs(vid, parse_layer3(frame_seqs))

InData(vid, r) == Then([i \in 1..Len(r.recs) |-> ForFrameSeq(vid, r.recs[i])], r)

ForFrameSeqs(vid, decompressed_data) == InData(vid, parse_layer2(decompressed_data))

InFile(r) == Then([i \in 1..Len(r.recs) |-> ForFrameSeqs(r.recs[i].items[1], r.recs[i].items[2])], r)

extract_frames(mm_view) == InFile(parse_layer1(mm_view))

(***************************************************************************)
(* process_file, statement group by statement group.                       *)
(***************************************************************************)
\* mmap.mmap(f.fileno(), 0, access=ACCESS_READ) refuses an empty file
MmapRaises(f) == Len(f.content) = 0

\* self.dbc_parser.decode_frame(vid, frame): the external decoder, here one
\* row per frame
decode_frame(vid, frame) == <<[vid |-> vid, value |-> frame]>>

RECURSIVE FlatRows(_)
FlatRows(fs) ==
  IF Len(fs) = 0 THEN <<>>
  ELSE decode_frame(fs[1][1], fs[1][2]) \o FlatRows(Tail(fs))

\* the for loop of process_file over extract_frames(mm_view); the decoder
\* raises on its fail_at-th call (0: never)
DecodeLoop(ex, fail_at) ==
  IF fail_at \in 1..Len(ex.frames)
    THEN [frames |-> SubSeq(ex.frames, 1, fail_at),
          rows |-> FlatRows(SubSeq(ex.frames, 1, fail_at - 1)),
          raised |-> TRUE, err |-> "DecodeError"]
    ELSE [frames |-> ex.frames, rows |-> FlatRows(ex.frames),
          raised |-> ex.raised, err |-> ex.err]

ExtractResult(f) == DecodeLoop(extract_frames(Mv(f.content)), f.decode_fail_at)

\* process_file once the loop has run: the path, the write, the return
AfterExtract(f, r) ==
  IF r.raised THEN [ok |-> FALSE, err |-> r.err]
  ELSE IF f.path_fails THEN [ok |-> FALSE, err |-> "OSError"]
  ELSE IF f.write_fails THEN [ok |-> FALSE, err |-> "IOError"]
  ELSE [ok |-> TRUE, err |-> ""]

\* the result of process_file(f) as the future of the pool sees it
process_file(f) ==
  IF MmapRaises(f) THEN [ok |-> FALSE, err |-> "ValueError"]
  ELSE AfterExtract(f, ExtractResult(f))

(***************************************************************************)
(* Inputs of the decoders: byte spans laid out as the decoders read them.  *)
(* A shape is the declared payload lengths of the complete records, then   *)
(* a tail: nothing, a partial header, or a last record whose declared      *)
(* length exceeds the bytes that follow its header.                        *)
(***************************************************************************)
Fill(n, b) == [i \in 1..n |-> b]

\* a large value of the layer's length field: 0xFFFF, 0x7FFF0000
BigField(l) == IF HeaderSize(l) - LenOff(l) = 2 THEN 65535 ELSE 2147418112

\* a header of layer l declaring a payload of n bytes
Header(l, n) == Fill(LenOff(l), 65) \o Pack(n, HeaderSize(l) - LenOff(l))

\* a payload span of n bytes (layer 1: a gzip member n bytes long or more)
Payload(l, n) == IF l = 1 THEN GzipCompress(Fill(n, 170)) ELSE Fill(n, 170)

Record(l, n) == LET p == Payload(l, n) IN Header(l, Len(p)) \o p

TailBytes(l, t) ==
  CASE t = "none"     -> <<>>
    [] t = "partial1" -> <<65>>
    [] t = "partialH" -> Fill(HeaderSize(l) - 1, 65)
    [] t = "trunc"    -> Header(l, 2) \o <<170>>
    [] t = "garbage"  -> Header(l, BigField(l))

RECURSIVE Records(_, _)
Records(l, lens) ==
  IF Len(lens) = 0 THEN <<>> ELSE Record(l, lens[1]) \o Records(l, Tail(lens))

BuildSpan(l, shape) == Records(l, shape.lens) \o TailBytes(l, shape.tail)

PayLens == {0, 1, 256}

Tails == {"none", "partial1", "partialH", "trunc", "garbage"}

SeqsUpTo(S, n) == UNION {[1..k -> S] : k \in 0..n}

Shapes == [lens : SeqsUpTo(PayLens, MaxRecs), tail : Tails]

(***************************************************************************)
(* DecSpec: one decoder, resumed until it ends.  dout collects what the    *)
(* generator yielded: the item, and where its record was read.             *)
(***************************************************************************)
IdleFile == [content |-> <<>>, path_fails |-> FALSE, write_fails |-> FALSE,
                decode_fail_at |-> 0, wf |-> FALSE, known |-> <<>>]

NoError == [stage |-> "", kind |-> ""]

FileIdle ==
  /\ file = IdleFile /\ fpc = "idle" /\ mapped = 0 /\ released = 0
  /\ frames = <<>> /\ exhausted = FALSE /\ rows = <<>>
  /\ writerInvoked = FALSE /\ ferr = NoError

DirIdle ==
  /\ files = <<>> /\ max_workers = 1 /\ fstate = <<>> /\ outcome = <<>>
  /\ yielded = {} /\ pbar = 0 /\ okPrinted = {} /\ failPrinted = {}
  /\ cpc = "idle"

DecIdle ==
  /\ dlayer = 0 /\ dshape = [lens |-> <<>>, tail |-> "none"] /\ dbuf = Mv(<<>>)
  /\ doffset = 0 /\ dout = <<>> /\ dpc = "idle"

DecInit ==
  /\ dlayer \in 1..4
  /\ dshape \in Shapes
  /\ dbuf = Mv(BuildSpan(dlayer, dshape))
  /\ doffset = 0
  /\ dout = <<>>
  /\ dpc = "loop"
  /\ FileIdle /\ DirIdle

\* next(generator) of parse_layer<l>: run to the next yield, or to the end
Resume(l) ==
  /\ dpc = "loop"
  /\ IF ~LoopCond(l, dbuf, doffset)
       THEN dpc' = "done" /\ UNCHANGED <<doffset, dout>>
       ELSE LET s == ParseStep(l, dbuf, doffset)
            IN IF s.brk THEN dpc' = "done" /\ UNCHANGED <<doffset, dout>>
               ELSE IF s.raised
                 THEN dpc' = "raised" /\ UNCHANGED <<doffset, dout>>
               ELSE /\ dout' = Append(dout, [item |-> s.item, at |-> doffset,
                                             header |-> s.header,
                                             span |-> s.span])
                    /\ doffset' = s.next
                    /\ dpc' = "loop"
  /\ UNCHANGED <<dlayer, dshape, dbuf>>
  /\ UNCHANGED <<fileVars, dirVars>>

ParseLayer1 == dlayer = 1 /\ Resume(1)

ParseLayer2 == dlayer = 2 /\ Resume(2)

ParseLayer3 == dlayer = 3 /\ Resume(3)

ParseLayer4 == dlayer = 4 /\ Resume(4)

DecNext == ParseLayer1 \/ ParseLayer2 \/ ParseLayer3 \/ ParseLayer4

DecSpec == DecInit /\ [][DecNext]_vars

\* the consumer of a generator keeps asking for the next item
FairDecSpec == DecSpec /\ WF_vars(DecNext)

(***************************************************************************)
(* Input files.  A well-formed file nests L4 records in one L3 record in   *)
(* one L2 record in the gzip payload of an L1 record, one L1 record per    *)
(* segment.                                                                *)
(***************************************************************************)
Vid1 == <<86, 69, 72>> \o Fill(14, 48) \o <<49>>   \* "VEH000000000000001"

Vid2 == <<86, 69, 72>> \o Fill(14, 48) \o <<50>>   \* "VEH000000000000002"

Frame1 == <<222, 173, 190, 239>>                   \* 0xDEADBEEF

Frame2 == <<1, 2>>

BuildL4(frame) == <<0, 7>> \o Pack(Len(frame), 2) \o frame

BuildL3(p) == <<0, 0, 0, 3>> \o Pack(Len(p), 4) \o p

BuildL2(p) == Fill(14, 2) \o Pack(Len(p), 2) \o p

BuildL1(vid, p) ==
  LET c == GzipCompress(p)
  IN vid \o Fill(13, 0) \o Pack(Len(c), 4) \o c

RECURSIVE BuildL4s(_)
BuildL4s(fs) == IF Len(fs) = 0 THEN <<>> ELSE BuildL4(fs[1]) \o BuildL4s(Tail(fs))

BuildSegment(seg) == BuildL1(seg.vid, BuildL2(BuildL3(BuildL4s(seg.frames))))

RECURSIVE BuildFile(_)
BuildFile(segs) ==
  IF Len(segs) = 0 THEN <<>> ELSE BuildSegment(segs[1]) \o BuildFile(Tail(segs))

\* the (source_id, frame) pairs a file was built from, in order
RECURSIVE KnownPairs(_)
KnownPairs(segs) ==
  IF Len(segs) = 0 THEN <<>>
  ELSE [i \in 1..Len(segs[1].frames) |-> <<segs[1].vid, segs[1].frames[i]>>]
         \o KnownPairs(Tail(segs))

Segments == {[vid |-> Vid1, frames |-> <<Frame1>>],
             [vid |-> Vid2, frames |-> <<Frame2, Frame1>>]}

WellFormedContents ==
  {[content |-> BuildFile(segs), wf |-> TRUE, known |-> KnownPairs(segs)] :
     segs \in SeqsUpTo(Segments, 2) \ {<<>>}}

OtherContents ==
  {[content |-> c, wf |-> FALSE, known |-> <<>>] :
     c \in {<<>>, <<1, 2, 3>>, Fill(34, 65),
            BuildSpan(1, [lens |-> <<>>, tail |-> "trunc"]),
            Header(1, 3) \o <<9, 9, 9>>}}

Contents == WellFormedContents \cup OtherContents

InputFiles ==
  {[content |-> c.content, wf |-> c.wf, known |-> c.known, path_fails |-> p,
    write_fails |-> w, decode_fail_at |-> d] :
     c \in Contents, p \in BOOLEAN, w \in BOOLEAN, d \in {0, 1}}

(***************************************************************************)
(* FileSpec: one call of process_file.                                     *)
(***************************************************************************)
FileInit ==
  /\ file \in InputFiles
  /\ fpc = "mmap"
  /\ mapped = 0 /\ released = 0
  /\ frames = <<>> /\ exhausted = FALSE /\ rows = <<>>
  /\ writerInvoked = FALSE /\ ferr = NoError
  /\ DecIdle /\ DirIdle

\* mm = self.mmap_file(file_path); mm_view = memoryview(mm)
MmapFile ==
  /\ fpc = "mmap"
  /\ IF MmapRaises(file)
       THEN /\ fpc' = "raised"
            /\ ferr' = [stage |-> "mmap", kind |-> "ValueError"]
            /\ UNCHANGED mapped
       ELSE /\ mapped' = mapped + 1
            /\ fpc' = "extract"
            /\ UNCHANGED ferr
  /\ UNCHANGED <<file, released, frames, exhausted, rows, writerInvoked>>
  /\ UNCHANGED <<decVars, dirVars>>

\* a loop that swallows the failure and goes on to write
ExtractAndDecodeSwallow ==
  /\ fpc = "extract"
  /\ LET r == ExtractResult(file)
     IN /\ frames' = r.frames
        /\ rows' = r.rows
        /\ exhausted' = ~r.raised
        /\ fpc' = "path"
        /\ ferr' = IF r.raised THEN [stage |-> "extract", kind |-> r.err]
                   ELSE ferr
  /\ UNCHANGED <<file, mapped, released, writerInvoked>>
  /\ UNCHANGED <<decVars, dirVars>>

\* all_rows = []; for vid, frame in self.extract_frames(mm_view): ...
ExtractAndDecode ==
  /\ fpc = "extract"
  /\ LET r == ExtractResult(file)
     IN /\ frames' = r.frames
        /\ rows' = r.rows
        /\ exhausted' = ~r.raised
        /\ IF r.raised
             THEN /\ fpc' = "raised"
                  /\ ferr' = [stage |-> "extract", kind |-> r.err]
             ELSE fpc' = "path" /\ UNCHANGED ferr
  /\ UNCHANGED <<file, mapped, released, writerInvoked>>
  /\ UNCHANGED <<decVars, dirVars>>

\* relative_to, out_file, mkdir(parents=True), with_suffix(".parquet")
ComputeOutPath ==
  /\ fpc = "path"
  /\ IF file.path_fails
       THEN fpc' = "raised" /\ ferr' = [stage |-> "path", kind |-> "OSError"]
       ELSE fpc' = "write" /\ UNCHANGED ferr
  /\ UNCHANGED <<file, mapped, released, frames, exhausted, rows, writerInvoked>>
  /\ UNCHANGED <<decVars, dirVars>>

\* df = pl.DataFrame(all_rows); df.write_parquet(out_file, ...)
WriteParquet ==
  /\ fpc = "write"
  /\ writerInvoked' = TRUE
  /\ IF file.write_fails
       THEN fpc' = "raised" /\ ferr' = [stage |-> "write", kind |-> "IOError"]
       ELSE fpc' = "release" /\ UNCHANGED ferr
  /\ UNCHANGED <<file, mapped, released, frames, exhausted, rows>>
  /\ UNCHANGED <<decVars, dirVars>>

\* mm_view.release(); mm.close(); return out_file
ReleaseAndReturn ==
  /\ fpc = "release"
  /\ released' = released + 1
  /\ fpc' = "returned"
  /\ UNCHANGED <<file, mapped, frames, exhausted, rows, writerInvoked, ferr>>
  /\ UNCHANGED <<decVars, dirVars>>

FileNext ==
  MmapFile \/ ExtractAndDecode \/ ComputeOutPath \/ WriteParquet
    \/ ReleaseAndReturn

FileSpec == FileInit /\ [][FileNext]_vars

\* the step machine and process_file agree on the outcome
Agrees(r) ==
  /\ fpc = "returned" => r.ok
  /\ fpc = "raised" => ~r.ok /\ r.err = ferr.kind

FileOutcomeAgrees == Agrees(process_file(file))

(***************************************************************************)
(* DirSpec: process_directory.  files are the *.bin files found; every     *)
(* one is submitted to a pool of max_workers processes; the coordinator    *)
(* takes the futures as they complete.                                     *)
(***************************************************************************)
DirFiles ==
  {f \in InputFiles :
     /\ f.decode_fail_at = 0 /\ ~f.path_fails
     /\ \/ f.content = <<1, 2, 3>>
        \/ ~f.write_fails /\ f.content \in {<<>>, BuildFile(<<[vid |-> Vid1, frames |-> <<Frame1>>]>>)}}

NFiles == Len(files)

Running == {i \in 1..NFiles : fstate[i] = "running"}

DirInit ==
  /\ files \in SeqsUpTo(DirFiles, MaxFiles)
  /\ max_workers \in 1..MaxWorkers
  /\ fstate = [i \in 1..Len(files) |-> "new"]
  /\ outcome = [i \in 1..Len(files) |-> [ok |-> FALSE, err |-> ""]]
  /\ yielded = {} /\ pbar = 0 /\ okPrinted = {} /\ failPrinted = {}
  /\ cpc = "submit"
  /\ DecIdle /\ FileIdle

\* pbar = tqdm(total=len(files)); future_to_file = {executor.submit(...): f
\* for f in files}
SubmitAll ==
  /\ cpc = "submit"
  /\ fstate' = [i \in 1..NFiles |-> "pending"]
  /\ cpc' = "collect"
  /\ UNCHANGED <<files, max_workers, outcome, yielded, pbar, okPrinted, failPrinted>>
  /\ UNCHANGED <<decVars, fileVars>>

\* a free worker process of the pool takes a submitted call
WorkerStart(i) ==
  /\ fstate[i] = "pending"
  /\ Cardinality(Running) < max_workers
  /\ fstate' = [fstate EXCEPT ![i] = "running"]
  /\ UNCHANGED <<files, max_workers, outcome, yielded, pbar, okPrinted, failPrinted, cpc>>
  /\ UNCHANGED <<decVars, fileVars>>

\* the worker runs self.process_file(f) to its return or its exception,
\* which becomes the result of the future
WorkerFinish(i) ==
  /\ fstate[i] = "running"
  /\ fstate' = [fstate EXCEPT ![i] = "done"]
  /\ outcome' = [outcome EXCEPT ![i] = process_file(files[i])]
  /\ UNCHANGED <<files, max_workers, yielded, pbar, okPrinted, failPrinted, cpc>>
  /\ UNCHANGED <<decVars, fileVars>>

\* a loop body without the inner try: the failure leaves the loop
CollectNoIsolation(i) ==
  /\ cpc = "collect"
  /\ fstate[i] = "done" /\ i \notin yielded
  /\ yielded' = yielded \cup {i}
  /\ IF outcome[i].ok
       THEN /\ pbar' = pbar + 1
            /\ okPrinted' = okPrinted \cup {i}
            /\ UNCHANGED <<failPrinted, cpc>>
       ELSE /\ cpc' = "closed"
            /\ UNCHANGED <<pbar, okPrinted, failPrinted>>
  /\ UNCHANGED <<files, max_workers, fstate, outcome>>
  /\ UNCHANGED <<decVars, fileVars>>

\* for future in as_completed(future_to_file): the body, for a completed
\* future not yet taken
Collect(i) ==
  /\ cpc = "collect"
  /\ fstate[i] = "done" /\ i \notin yielded
  /\ yielded' = yielded \cup {i}
  /\ IF outcome[i].ok
       THEN /\ pbar' = pbar + 1
            /\ okPrinted' = okPrinted \cup {i}
            /\ UNCHANGED failPrinted
       ELSE /\ failPrinted' = failPrinted \cup {i}
            /\ UNCHANGED <<pbar, okPrinted>>
  /\ UNCHANGED <<files, max_workers, fstate, outcome, cpc>>
  /\ UNCHANGED <<decVars, fileVars>>

\* as_completed is exhausted: finally pbar.close(), the executor shuts down
Close ==
  /\ cpc = "collect"
  /\ yielded = 1..NFiles
  /\ cpc' = "closed"
  /\ UNCHANGED <<files, max_workers, fstate, outcome, yielded, pbar, okPrinted, failPrinted>>
  /\ UNCHANGED <<decVars, fileVars>>

DirNext ==
  \/ SubmitAll
  \/ \E i \in 1..NFiles : WorkerStart(i)
  \/ \E i \in 1..NFiles : WorkerFinish(i)
  \/ \E i \in 1..NFiles : Collect(i)
  \/ Close

DirSpec == DirInit /\ [][DirNext]_vars

\* the pool runs every submitted call and the coordinator blocks on the next
\* completed future, with no timeout
FairDirSpec == DirSpec /\ WF_vars(DirNext)

\* how far a run of process_directory has come
Rank(st) == CASE st = "new" -> 0 [] st = "pending" -> 1 [] st = "running" -> 2
              [] st = "done" -> 3

RECURSIVE SumRanks(_)
SumRanks(sts) == IF Len(sts) = 0 THEN 0 ELSE Rank(sts[1]) + SumRanks(Tail(sts))

DirMeasure(sts, taken, pc) ==
  SumRanks(sts) + Cardinality(taken)
    + (CASE pc = "submit" -> 0 [] pc = "collect" -> 1 [] pc = "closed" -> 2)

\* every step of process_directory moves the run forward, and under the
\* fairness of the pool the run ends
DirProgress ==
  /\ [][DirMeasure(fstate', yielded', cpc') > DirMeasure(fstate, yielded, cpc)]_vars
  /\ <>(cpc = "closed")

(***************************************************************************)
(* Properties of the layer decoders (DecSpec, FairDecSpec).                *)
(***************************************************************************)
\* the bytes of the span hold a whole record at offset off
FitsAt(off) ==
  /\ off + HeaderSize(dlayer) <= Len(dbuf.data)
  /\ off + HeaderSize(dlayer)
       + DataLen(dlayer, PySlice(dbuf.data, off, off + HeaderSize(dlayer)))
       <= Len(dbuf.data)

\* where the decoder went on reading after its i-th yield
NextAt(i) == IF i < Len(dout) THEN dout[i + 1].at ELSE doffset

Declared(i) == DataLen(dlayer, dout[i].header)

\* C1: on a span whose last record declares a payload longer than the
\* bytes left after its header, the decoder yields only the records before
\* that one, then stops without raising, and no yielded record has a payload
\* shorter than its declared length.
C1_Truncation ==
  (dpc # "idle" /\ dshape.tail \in {"trunc", "garbage"}) =>
    /\ dpc # "raised"
    /\ Len(dout) <= Len(dshape.lens)
    /\ \A i \in 1..Len(dout) : Len(dout[i].span) = Declared(i)
    /\ dpc = "done" => Len(dout) = Len(dshape.lens)

\* C3: every record whose header and declared payload fit in the span is
\* yielded with a payload span (layer 1: the compressed span) exactly as long
\* as the big-endian length field of its header says, and the next header is
\* read at offset + header size + declared length.
C3_DeclaredLength ==
  dpc # "idle" =>
    /\ \A i \in 1..Len(dout) :
         FitsAt(dout[i].at) =>
           /\ Len(dout[i].span) = Declared(i)
           /\ NextAt(i) = dout[i].at + HeaderSize(dlayer) + Declared(i)
    /\ dpc = "raised" => ~FitsAt(doffset)

\* the same for the decoders of layers 2 to 4 alone
DeclaredLengthLayers234 == dlayer \in 2..4 => C3_DeclaredLength

\* C10: every decoder ends on every finite span, zero-length payloads and
\* garbage length fields included: each iteration that yields moves the
\* offset forward by at least the header size, the records yielded are no
\* more than the span has room for, the loop is left only when fewer bytes
\* than a header remain, and the decoder does end.
C10_Termination ==
  /\ [][Len(dout') > Len(dout) => doffset' >= doffset + HeaderSize(dlayer)]_vars
  /\ [](dpc # "idle" => Len(dout) * HeaderSize(dlayer) <= Len(dbuf.data))
  /\ [](dpc = "done" => doffset + HeaderSize(dlayer) > Len(dbuf.data))
  /\ <>(dpc \in {"done", "raised"})

\* a decoder that ended after a zero-length record and a garbage tail
C10_Witness ==
  /\ dpc = "done" /\ dshape.tail = "garbage"
  /\ Len(dout) = Len(dshape.lens) + 1
  /\ \E i \in 1..Len(dout) : Declared(i) = 0

(***************************************************************************)
(* Properties of process_file (FileSpec).                                  *)
(***************************************************************************)
Exited == fpc \in {"returned", "raised"}

\* the pairs extract_frames is to yield for a file built from `known`
ExpectedFrames(known) == [i \in 1..Len(known) |-> <<known[i][1], Mv(known[i][2])>>]

\* C2: on a buffer built by nesting well-formed L1, L2, L3 and L4 records
\* around known frames, extract_frames yields exactly the (source_id, L4
\* payload) pairs used to build it, in order.
C2_RoundTrip ==
  (file.wf /\ fpc \notin {"idle", "mmap", "extract"}) =>
    /\ ferr.stage # "extract"
    /\ frames = ExpectedFrames(file.known)

\* C4: a call of process_file that acquired a mapping has released it
\* exactly once when it exits, by return or by exception.
C4_ScopedRelease ==
  /\ released <= mapped
  /\ (Exited /\ mapped > 0) => released = 1

\* C9: a zero-length file maps to an empty buffer, not an error, and
\* process_file extracts no frames from it and does not fail on it.
C9_ZeroLength ==
  (fpc # "idle" /\ Len(file.content) = 0) =>
    /\ ferr.stage \notin {"mmap", "extract"}
    /\ (Exited /\ ~file.path_fails /\ ~file.write_fails) => fpc = "returned"

\* C7: the writer is invoked only after the extractor was driven to
\* exhaustion and every frame was decoded; when extraction or decoding
\* fails the writer is never invoked.
C7_NoPartialOutput ==
  /\ writerInvoked =>
       /\ exhausted
       /\ ferr.stage \notin {"mmap", "extract"}
       /\ rows = FlatRows(frames)
  /\ ferr.stage \in {"mmap", "extract"} => ~writerInvoked /\ Exited

\* extraction of a well-formed file failed and nothing was written
C7_Witness ==
  /\ fpc = "raised" /\ ferr.stage = "extract" /\ file.wf
  /\ ~file.write_fails /\ ~file.path_fails
  /\ ~writerInvoked

(***************************************************************************)
(* Properties of process_directory (DirSpec).                              *)
(***************************************************************************)
\* C5: the failure of one file is that file's failure only: whatever else
\* has failed, a file is reported failed exactly when its own processing
\* fails and done otherwise; the coordinator ends only when every submitted
\* file has been handled, and until then the pool or the coordinator always
\* has a next step to take.
C5_FaultIsolation ==
  /\ \A i \in yielded :
       /\ i \in failPrinted <=> ~process_file(files[i]).ok
       /\ i \in okPrinted <=> process_file(files[i]).ok
  /\ okPrinted \cup failPrinted = yielded
  /\ cpc = "closed" => yielded = 1..NFiles
  /\ cpc \in {"idle", "closed"} \/ ENABLED DirNext

\* a run that ended with a failed file taken before a successful one
C5_Witness ==
  /\ cpc = "closed" /\ yielded = 1..NFiles
  /\ \E i, j \in 1..NFiles : i < j /\ i \in failPrinted /\ j \in okPrinted

\* C6: the progress counter advances by one for each completed file,
\* failed or not, so it equals the number of files when the run ends.
C6_Progress == cpc = "closed" => pbar = NFiles

\* C8: N well-formed files end as N successes and no failure, whatever the
\* order in which the pool starts and completes them.
C8_AllValidSucceed ==
  (cpc = "closed" /\ \A i \in 1..NFiles : files[i].wf) =>
    /\ okPrinted = 1..NFiles
    /\ failPrinted = {}

====
